---- MODULE Spec2Model ----
(***************************************************************************)
(* Ride/driver dispatch of src/app.py: the FastAPI handlers user_request,  *)
(* driver_register, ride_accept, ride_end and admin_driver_status over the *)
(* three SQLite tables users, drivers and rides.                           *)
(*                                                                         *)
(* Handlers run concurrently (FastAPI runs `def` endpoints in a thread     *)
(* pool), each on its own connection.  With the pysqlite driver a          *)
(* transaction begins at the first INSERT/UPDATE of a handler and commits  *)
(* when its `with engine.begin()` block exits; a SELECT that precedes the  *)
(* first write reads the committed tables and takes no write lock.  SQLite *)
(* admits one write transaction at a time and its uncommitted rows are not *)
(* visible to other connections; a second writer waits for the lock.       *)
(***************************************************************************)
EXTENDS Integers, Sequences, FiniteSets, TLC

\* ---- bounds of the model
MaxDrivers == 2
MaxRides == 2
MaxCalls == 5
\* the rides of the listing specification SpecList: more than LIMIT
MaxListRides == 52

Procs == {"p1", "p2"}
Contacts == {"c1", "c2"}
Names == {"Alice"}
RideIds == 1..MaxRides
DriverIds == 1..MaxDrivers

NULL == 0
\* A timestamp column holds NULL or the text of datetime.utcnow().isoformat();
\* the handlers only store timestamps and never compare them
NoTime == "null"
utcnow == "utcnow"
Times == {utcnow}
NoProc == "none"

\* admin_driver_status: the list of recognized status values
DriverStatuses == {"approved", "available", "busy", "inactive", "pending"}
\* a status string outside the list, as a caller may send it
StatusInputs == DriverStatuses \cup {"bogus"}

VARIABLES
    users,      \* committed table users: row id -> [name]
    drivers,    \* committed table drivers: row id -> [contact, status, updated_at]
    rides,      \* committed table rides: row id -> [user_id, driver_id, status, start_time, end_time]
    lock,       \* the handler that holds SQLite's write lock, or NoProc
    tx,         \* the tables as the open write transaction sees them
    pc,         \* each handler's position
    arg,        \* each running handler's parameters and locals
    resp,       \* the response this step sends, if any: [proc, op, res, id]
    calls,      \* the number of handler invocations so far
    raced       \* history: during this handler's ride_accept another ride_accept
                \* of the same requested ride committed and returned ok

vars == <<users, drivers, rides, lock, tx, pc, arg, resp, calls, raced>>

NoTx == [users |-> <<>>, drivers |-> <<>>, rides |-> <<>>]
NoArg == [rid |-> NULL, c |-> "", d |-> NULL, s |-> "", uid |-> NULL]
\* the response r of handler op to caller p; only user_request returns an id
Resp(p, op, r) == [proc |-> p, op |-> op, res |-> r, id |-> NULL]
NoResp == Resp(NoProc, "none", "none")

\* init_db: CREATE TABLE IF NOT EXISTS on a new database file: three empty tables
init_db ==
    /\ users = <<>>
    /\ drivers = <<>>
    /\ rides = <<>>

Init ==
    /\ init_db
    /\ lock = NoProc
    /\ tx = NoTx
    /\ pc = [p \in Procs |-> "idle"]
    /\ arg = [p \in Procs |-> NoArg]
    /\ resp = NoResp
    /\ calls = 0
    /\ raced = [p \in Procs |-> FALSE]

\* the tables a new write transaction starts from
Committed == [users |-> users, drivers |-> drivers, rides |-> rides]

\* last_insert_rowid() read before the INSERT: the id of the row before
NextId_BeforeInsert(table) == Len(table)

\* INTEGER PRIMARY KEY AUTOINCREMENT: no row is ever deleted, so the next id
\* is one more than the number of rows
NextId(table) == Len(table) + 1

\* the SELECT without its WHERE clause: every driver row matches
DriversByContact_NoWhere(c) == {i \in 1..Len(drivers) : TRUE}

\* SELECT id, status FROM drivers WHERE contact=:c: the ids of the matching rows
DriversByContact(c) == {i \in 1..Len(drivers) : drivers[i].contact = c}

\* .mappings().first(): the first matching row, None (NULL) when there is none.
\* The query has no ORDER BY and drivers has no index on contact, so SQLite
\* scans the table by rowid and the first row is the one with the least id.
first(ids) == IF ids = {} THEN NULL ELSE CHOOSE i \in ids : \A j \in ids : i <= j

\* UPDATE rides SET status='accepted', driver_id=:did WHERE id=:rid
UpdateRideAccepted(t, rid, did) ==
    [i \in 1..Len(t) |->
        IF i = rid THEN [t[i] EXCEPT !.status = "accepted", !.driver_id = did]
        ELSE t[i]]

\* the UPDATE without its WHERE clause: every ride is completed
UpdateRideCompleted_NoWhere(t, rid, now) ==
    [i \in 1..Len(t) |-> [t[i] EXCEPT !.status = "completed", !.end_time = now]]

\* UPDATE rides SET status='completed', end_time=:t WHERE id=:rid
UpdateRideCompleted(t, rid, now) ==
    [i \in 1..Len(t) |->
        IF i = rid THEN [t[i] EXCEPT !.status = "completed", !.end_time = now]
        ELSE t[i]]

\* UPDATE drivers SET status=:s, updated_at=:u WHERE id=:did
UpdateDriverStatus(t, did, s, now) ==
    [i \in 1..Len(t) |->
        IF i = did THEN [t[i] EXCEPT !.status = s, !.updated_at = now]
        ELSE t[i]]

\* a handler starts, within a budget of invocations
BeginWithin(p, maxCalls) ==
    /\ pc[p] = "idle"
    /\ calls < maxCalls
    /\ calls' = calls + 1
    /\ raced' = [raced EXCEPT ![p] = FALSE]

Begin(p) == BeginWithin(p, MaxCalls)

\* the first INSERT/UPDATE of a handler opens the write transaction
AcquireLock(p) ==
    /\ lock = NoProc
    /\ lock' = p

\* a step that sends no response
Silent == resp' = NoResp

\* raise HTTPException(...) or return {"ok": True}: the response of handler op
Respond(p, op, r) ==
    resp' = Resp(p, op, r)

\* ---- POST /user/request
user_request_within(p, name, maxCalls, maxRides) ==
    /\ BeginWithin(p, maxCalls)
    /\ Len(users) < maxRides
    /\ AcquireLock(p)
    /\ tx' = [Committed EXCEPT !.users = Append(users, [name |-> name])]
    /\ arg' = [arg EXCEPT ![p] = [NoArg EXCEPT !.uid = NextId(users)]]
    /\ pc' = [pc EXCEPT ![p] = "req_insert_ride"]
    /\ Silent
    /\ UNCHANGED <<users, drivers, rides>>

user_request(p, name) == user_request_within(p, name, MaxCalls, MaxRides)

\* the ride bound to the first users row instead of last_insert_rowid()
user_request_insert_ride_FirstUser(p, now) ==
    /\ pc[p] = "req_insert_ride"
    /\ tx' = [tx EXCEPT !.rides = Append(tx.rides,
                 [user_id |-> 1, driver_id |-> NULL, status |-> "requested",
                  start_time |-> now, end_time |-> NoTime])]
    /\ pc' = [pc EXCEPT ![p] = "req_commit"]
    /\ Silent
    /\ UNCHANGED <<users, drivers, rides, lock, arg, calls, raced>>

user_request_insert_ride(p, now) ==
    /\ pc[p] = "req_insert_ride"
    /\ tx' = [tx EXCEPT !.rides = Append(tx.rides,
                 [user_id |-> arg[p].uid, driver_id |-> NULL, status |-> "requested",
                  start_time |-> now, end_time |-> NoTime])]
    /\ pc' = [pc EXCEPT ![p] = "req_commit"]
    /\ Silent
    /\ UNCHANGED <<users, drivers, rides, lock, arg, calls, raced>>

\* ---- POST /driver/register
driver_register(p, c, now) ==
    /\ Begin(p)
    /\ Len(drivers) < MaxDrivers
    /\ AcquireLock(p)
    /\ tx' = [Committed EXCEPT !.drivers = Append(drivers,
                 [contact |-> c, status |-> "pending", updated_at |-> now])]
    /\ pc' = [pc EXCEPT ![p] = "reg_commit"]
    /\ Silent
    /\ UNCHANGED <<users, drivers, rides, arg>>

\* ---- POST /ride/accept
\* the SELECT of the driver and `if not d: raise HTTPException(404)`
ride_accept(p, rid, c) ==
    /\ Begin(p)
    /\ LET d == first(DriversByContact(c)) IN
       IF d = NULL
       THEN /\ Respond(p, "ride_accept", "NotFound")
            /\ UNCHANGED <<pc, arg>>
       ELSE /\ arg' = [arg EXCEPT ![p] = [NoArg EXCEPT !.rid = rid, !.c = c, !.d = d]]
            /\ pc' = [pc EXCEPT ![p] = "acc_update_ride"]
            /\ Silent
    /\ UNCHANGED <<users, drivers, rides, lock, tx>>

\* the UPDATE of the ride committed on its own (autocommit), ahead of the
\* UPDATE of the driver
ride_accept_update_ride_autocommit(p) ==
    /\ pc[p] = "acc_update_ride"
    /\ AcquireLock(p)
    /\ rides' = UpdateRideAccepted(rides, arg[p].rid, arg[p].d)
    /\ tx' = [Committed EXCEPT !.rides = UpdateRideAccepted(rides, arg[p].rid, arg[p].d)]
    /\ pc' = [pc EXCEPT ![p] = "acc_update_driver"]
    /\ Silent
    /\ UNCHANGED <<users, drivers, arg, calls, raced>>

ride_accept_update_ride(p) ==
    /\ pc[p] = "acc_update_ride"
    /\ AcquireLock(p)
    /\ tx' = [Committed EXCEPT !.rides = UpdateRideAccepted(rides, arg[p].rid, arg[p].d)]
    /\ pc' = [pc EXCEPT ![p] = "acc_update_driver"]
    /\ Silent
    /\ UNCHANGED <<users, drivers, rides, arg, calls, raced>>

\* the UPDATE of the driver skipped when the UPDATE of the ride matched no row
ride_accept_update_driver_IfRideFound(p, now) ==
    /\ pc[p] = "acc_update_driver"
    /\ tx' = IF arg[p].rid \in 1..Len(tx.rides)
             THEN [tx EXCEPT !.drivers = UpdateDriverStatus(tx.drivers, arg[p].d, "busy", now)]
             ELSE tx
    /\ pc' = [pc EXCEPT ![p] = "acc_commit"]
    /\ Silent
    /\ UNCHANGED <<users, drivers, rides, lock, arg, calls, raced>>

ride_accept_update_driver(p, now) ==
    /\ pc[p] = "acc_update_driver"
    /\ tx' = [tx EXCEPT !.drivers = UpdateDriverStatus(tx.drivers, arg[p].d, "busy", now)]
    /\ pc' = [pc EXCEPT ![p] = "acc_commit"]
    /\ Silent
    /\ UNCHANGED <<users, drivers, rides, lock, arg, calls, raced>>

\* ---- POST /ride/end
\* the SELECT of the driver and `if not d: raise HTTPException(404)`
ride_end(p, rid, c) ==
    /\ Begin(p)
    /\ LET d == first(DriversByContact(c)) IN
       IF d = NULL
       THEN /\ Respond(p, "ride_end", "NotFound")
            /\ UNCHANGED <<pc, arg>>
       ELSE /\ arg' = [arg EXCEPT ![p] = [NoArg EXCEPT !.rid = rid, !.c = c, !.d = d]]
            /\ pc' = [pc EXCEPT ![p] = "end_update_ride"]
            /\ Silent
    /\ UNCHANGED <<users, drivers, rides, lock, tx>>

ride_end_update_ride(p, now) ==
    /\ pc[p] = "end_update_ride"
    /\ AcquireLock(p)
    /\ tx' = [Committed EXCEPT !.rides = UpdateRideCompleted(rides, arg[p].rid, now)]
    /\ pc' = [pc EXCEPT ![p] = "end_update_driver"]
    /\ Silent
    /\ UNCHANGED <<users, drivers, rides, arg, calls, raced>>

ride_end_update_driver(p, now) ==
    /\ pc[p] = "end_update_driver"
    /\ tx' = [tx EXCEPT !.drivers = UpdateDriverStatus(tx.drivers, arg[p].d, "available", now)]
    /\ pc' = [pc EXCEPT ![p] = "end_commit"]
    /\ Silent
    /\ UNCHANGED <<users, drivers, rides, lock, arg, calls, raced>>

\* ---- POST /admin/driver/status
\* the handler refusing to override a driver bound to an accepted ride
admin_driver_status_guarded(p, did, s, now) ==
    /\ Begin(p)
    /\ IF s \notin DriverStatuses
       THEN /\ Respond(p, "admin_driver_status", "InvalidArgument")
            /\ UNCHANGED <<lock, tx, pc, arg>>
       ELSE IF \E r \in 1..Len(rides) : rides[r].status = "accepted" /\ rides[r].driver_id = did
       THEN /\ Respond(p, "admin_driver_status", "InvalidTransition")
            /\ UNCHANGED <<lock, tx, pc, arg>>
       ELSE /\ AcquireLock(p)
            /\ tx' = [Committed EXCEPT !.drivers = UpdateDriverStatus(drivers, did, s, now)]
            /\ arg' = [arg EXCEPT ![p] = [NoArg EXCEPT !.d = did, !.s = s]]
            /\ pc' = [pc EXCEPT ![p] = "adm_commit"]
            /\ Silent
    /\ UNCHANGED <<users, drivers, rides>>

\* the handler without its check of the status value
admin_driver_status_unchecked(p, did, s, now) ==
    /\ Begin(p)
    /\ AcquireLock(p)
    /\ tx' = [Committed EXCEPT !.drivers = UpdateDriverStatus(drivers, did, s, now)]
    /\ arg' = [arg EXCEPT ![p] = [NoArg EXCEPT !.d = did, !.s = s]]
    /\ pc' = [pc EXCEPT ![p] = "adm_commit"]
    /\ Silent
    /\ UNCHANGED <<users, drivers, rides>>

\* `if status not in [...]: raise HTTPException(400)`, else the UPDATE
admin_driver_status(p, did, s, now) ==
    /\ Begin(p)
    /\ IF s \notin DriverStatuses
       THEN /\ Respond(p, "admin_driver_status", "InvalidArgument")
            /\ UNCHANGED <<lock, tx, pc, arg>>
       ELSE /\ AcquireLock(p)
            /\ pc' = [pc EXCEPT ![p] = "adm_commit"]
            /\ arg' = [arg EXCEPT ![p] = [NoArg EXCEPT !.d = did, !.s = s]]
            /\ tx' = [Committed EXCEPT !.drivers = UpdateDriverStatus(drivers, did, s, now)]
            /\ Silent
    /\ UNCHANGED <<users, drivers, rides>>

\* ---- the exit of `with engine.begin() as conn`: COMMIT, then the response
CommitOp(p) ==
    CASE pc[p] = "req_commit" -> "user_request"
      [] pc[p] = "reg_commit" -> "driver_register"
      [] pc[p] = "acc_commit" -> "ride_accept"
      [] pc[p] = "end_commit" -> "ride_end"
      [] pc[p] = "adm_commit" -> "admin_driver_status"
      [] OTHER -> "none"

\* return {"ok": True, "user_id": user_id}: user_request alone returns an id
ReturnedId(p) == IF pc[p] = "req_commit" THEN arg[p].uid ELSE NULL

\* the other handlers inside ride_accept of the ride that p's ride_accept takes
\* from requested to accepted
RacedBy(p) ==
    {q \in Procs \ {p} :
        /\ pc[p] = "acc_commit"
        /\ pc[q] = "acc_update_ride"
        /\ arg[q].rid = arg[p].rid
        /\ arg[p].rid \in 1..Len(rides)
        /\ rides[arg[p].rid].status = "requested"}

Commit(p) ==
    /\ CommitOp(p) # "none"
    /\ lock = p
    /\ users' = tx.users
    /\ drivers' = tx.drivers
    /\ rides' = tx.rides
    /\ lock' = NoProc
    /\ tx' = NoTx
    /\ pc' = [pc EXCEPT ![p] = "idle"]
    /\ arg' = [arg EXCEPT ![p] = NoArg]
    /\ resp' = [Resp(p, CommitOp(p), "ok") EXCEPT !.id = ReturnedId(p)]
    /\ raced' = [q \in Procs |-> raced[q] \/ q \in RacedBy(p)]
    /\ UNCHANGED calls

Next ==
    \E p \in Procs :
        \/ \E n \in Names : user_request(p, n)
        \/ \E now \in Times : user_request_insert_ride(p, now)
        \/ \E c \in Contacts, now \in Times : driver_register(p, c, now)
        \/ \E rid \in RideIds, c \in Contacts : ride_accept(p, rid, c)
        \/ ride_accept_update_ride(p)
        \/ \E now \in Times : ride_accept_update_driver(p, now)
        \/ \E rid \in RideIds, c \in Contacts : ride_end(p, rid, c)
        \/ \E now \in Times : ride_end_update_ride(p, now)
        \/ \E now \in Times : ride_end_update_driver(p, now)
        \/ \E did \in DriverIds, s \in StatusInputs, now \in Times : admin_driver_status(p, did, s, now)
        \/ Commit(p)

Spec == Init /\ [][Next]_vars

\* ---- the GET handlers.  Each runs one SELECT on the committed tables and
\* writes nothing: its step changes no table, and its result is a function of
\* the committed tables at the moment of the SELECT.

\* GET /driver/available with 'pending' in its status list
driver_available_WithPending ==
    {[id |-> i, contact |-> drivers[i].contact, status |-> drivers[i].status,
      updated_at |-> drivers[i].updated_at] :
        i \in {j \in 1..Len(drivers) : drivers[j].status \in {"approved", "available", "pending"}}}

\* GET /driver/available: SELECT * FROM drivers WHERE status IN ('approved','available')
driver_available ==
    {[id |-> i, contact |-> drivers[i].contact, status |-> drivers[i].status,
      updated_at |-> drivers[i].updated_at] :
        i \in {j \in 1..Len(drivers) : drivers[j].status \in {"approved", "available"}}}

\* ORDER BY r.id DESC LIMIT 50
LIMIT == 50

\* the ids of a set in ascending / descending order
RECURSIVE OrderAsc(_)
OrderAsc(ids) ==
    IF ids = {} THEN <<>>
    ELSE LET m == CHOOSE i \in ids : \A j \in ids : i <= j
         IN <<m>> \o OrderAsc(ids \ {m})

RECURSIVE OrderDesc(_)
OrderDesc(ids) ==
    IF ids = {} THEN <<>>
    ELSE LET m == CHOOSE i \in ids : \A j \in ids : i >= j
         IN <<m>> \o OrderDesc(ids \ {m})

\* the first n elements of a sequence
Limit(seq, n) == SubSeq(seq, 1, IF Len(seq) < n THEN Len(seq) ELSE n)

\* FROM rides r JOIN users u ON r.user_id = u.id: the rides that have a users row
Joined == {r \in 1..Len(rides) : rides[r].user_id \in 1..Len(users)}

RideOut(r) ==
    [ride_id |-> r, status |-> rides[r].status, driver_id |-> rides[r].driver_id,
     user_name |-> users[rides[r].user_id].name]

\* GET /rides/latest with ORDER BY r.id, without DESC
rides_latest_Ascending ==
    LET ids == Limit(OrderAsc(Joined), LIMIT)
    IN [i \in 1..Len(ids) |-> RideOut(ids[i])]

\* GET /rides/latest
rides_latest ==
    LET ids == Limit(OrderDesc(Joined), LIMIT)
    IN [i \in 1..Len(ids) |-> RideOut(ids[i])]

\* ---- the listing specification: ride requests only, up to MaxListRides rides
list_user_request(p, name) == user_request_within(p, name, MaxListRides, MaxListRides)

ListNext ==
    \E p \in Procs :
        \/ \E n \in Names : list_user_request(p, n)
        \/ \E now \in Times : user_request_insert_ride(p, now)
        \/ Commit(p)

SpecList == Init /\ [][ListNext]_vars

\* ---- definitions the properties share
tables == <<users, drivers, rides>>
RideRows == 1..Len(rides)
DriverRows == 1..Len(drivers)

\* the rides with status accepted that driver d is bound to
AcceptedBy(d) == {r \in RideRows : rides[r].status = "accepted" /\ rides[r].driver_id = d}

\* the step in which p's ride_accept / ride_end commits and returns
AcceptReturns(p) == pc[p] = "acc_commit" /\ pc'[p] = "idle"
EndReturns(p) == pc[p] = "end_commit" /\ pc'[p] = "idle"

InvalidTransition(p, op) == resp' = Resp(p, op, "InvalidTransition")

\* C1: no driver is bound to more than one ride with status accepted.
C1_NoDoubleBooking ==
    \A d \in DriverRows : Cardinality(AcceptedBy(d)) <= 1

\* C2: of two ride_accept calls that run concurrently on the same requested
\* ride, the one that returns after the other has succeeded returns
\* InvalidTransition; they never both return ok.
C2_ConcurrentAcceptOneWinner ==
    \A q \in Procs :
        (raced[q] /\ resp.proc = q /\ resp.op = "ride_accept")
            => resp.res = "InvalidTransition"

\* C3: a ride's driver_id is non-null iff its status is accepted or completed.
C3_DriverRefIffAcceptedOrCompleted ==
    \A r \in RideRows :
        (rides[r].driver_id # NULL) <=> (rides[r].status \in {"accepted", "completed"})

\* C4: a driver's status is busy iff exactly one accepted ride has that driver bound.
C4_BusyIffOneAcceptedRide ==
    \A d \in DriverRows :
        (drivers[d].status = "busy") <=> (Cardinality(AcceptedBy(d)) = 1)

\* C5: a ride's status only moves forward along requested -> accepted ->
\* completed, one stage at a time: no step moves it back, none skips accepted.
StatusRank(s) == CASE s = "requested" -> 1 [] s = "accepted" -> 2 [] s = "completed" -> 3
C5_RideStatusForwardOnly ==
    [][\A r \in RideRows :
          /\ StatusRank(rides'[r].status) >= StatusRank(rides[r].status)
          /\ StatusRank(rides'[r].status) <= StatusRank(rides[r].status) + 1]_vars

\* C6: ride_accept by a registered driver on a ride that is not requested
\* returns InvalidTransition and changes no record.
C6_AcceptNonRequestedRejected ==
    [][\A p \in Procs :
          (/\ AcceptReturns(p)
           /\ arg[p].rid \in RideRows
           /\ rides[arg[p].rid].status # "requested")
          => (InvalidTransition(p, "ride_accept") /\ UNCHANGED tables)]_vars

\* C7: ride_accept on a requested ride by a driver whose status is busy or
\* inactive returns InvalidTransition; the ride stays requested with no driver
\* and the driver's status stays.
C7_AcceptByBusyOrInactiveRejected ==
    [][\A p \in Procs :
          (/\ AcceptReturns(p)
           /\ arg[p].rid \in RideRows
           /\ rides[arg[p].rid].status = "requested"
           /\ drivers[arg[p].d].status \in {"busy", "inactive"})
          => (/\ InvalidTransition(p, "ride_accept")
              /\ rides'[arg[p].rid] = rides[arg[p].rid]
              /\ drivers'[arg[p].d].status = drivers[arg[p].d].status)]_vars

\* C8: ride_end on a ride that is not accepted returns InvalidTransition and
\* changes no record; the caller's status is not set to available.
C8_EndNonAcceptedRejected ==
    [][\A p \in Procs :
          (/\ EndReturns(p)
           /\ arg[p].rid \in RideRows
           /\ rides[arg[p].rid].status # "accepted")
          => (InvalidTransition(p, "ride_end") /\ UNCHANGED tables)]_vars

\* C9: ride_end on an accepted ride bound to a driver other than the caller
\* returns InvalidTransition; the ride stays accepted with its driver and
\* neither driver's status changes.
C9_EndByOtherDriverRejected ==
    [][\A p \in Procs :
          (/\ EndReturns(p)
           /\ arg[p].rid \in RideRows
           /\ rides[arg[p].rid].status = "accepted"
           /\ rides[arg[p].rid].driver_id # arg[p].d)
          => (/\ InvalidTransition(p, "ride_end")
              /\ rides'[arg[p].rid] = rides[arg[p].rid]
              /\ \A d \in DriverRows : drivers'[d].status = drivers[d].status)]_vars

\* C10: ride_accept or ride_end called with a contact that no driver row has
\* returns NotFound and changes no ride and no driver.
UnknownContact(c) == \A d \in DriverRows : drivers[d].contact # c
C10_UnknownContactNotFound ==
    [][\A c \in Contacts :
          UnknownContact(c) =>
             \A p \in Procs :
                (pc[p] = "idle" /\ calls' # calls) =>
                   \A rid \in RideIds :
                      /\ ride_accept(p, rid, c)
                            => (/\ resp' = Resp(p, "ride_accept", "NotFound")
                                /\ pc'[p] = "idle"
                                /\ UNCHANGED <<tables, lock, tx>>)
                      /\ ride_end(p, rid, c)
                            => (/\ resp' = Resp(p, "ride_end", "NotFound")
                                /\ pc'[p] = "idle"
                                /\ UNCHANGED <<tables, lock, tx>>)]_vars

\* a ride_end with an unknown contact has just been refused while an accepted
\* ride and a registered driver exist
C10_Witness ==
    /\ resp.op = "ride_end"
    /\ resp.res = "NotFound"
    /\ \E r \in RideRows : rides[r].status = "accepted"
    /\ \E c \in Contacts : UnknownContact(c)

\* the step in which p's handler starts: p leaves "idle" or is answered at once
Starts(p) ==
    /\ pc[p] = "idle"
    /\ calls' # calls
    /\ (pc'[p] # "idle" \/ resp'.proc = p)

\* the step in which p's handler commits and returns
Returns(p, at) == pc[p] = at /\ pc'[p] = "idle"
CommitPcs == {"req_commit", "reg_commit", "acc_commit", "end_commit", "adm_commit"}

\* every row of table t but row i is the same in t2, and no row is added
OnlyRowChanges(t, t2, i) ==
    /\ Len(t2) = Len(t)
    /\ \A j \in 1..Len(t) : j # i => t2[j] = t[j]

\* C11: a successful ride_accept applies its write to the ride and its write
\* to the driver in one step; the committed tables change in no other step of
\* the handler, so no other handler sees one write without the other.
C11_AcceptWritesAtomic ==
    [][/\ (tables' # tables) => \E p \in Procs : pc[p] \in CommitPcs /\ pc'[p] = "idle"
       /\ \A p \in Procs :
             Returns(p, "acc_commit") =>
                LET rid == arg[p].rid
                    d == arg[p].d IN
                /\ resp' = Resp(p, "ride_accept", "ok")
                /\ users' = users
                /\ OnlyRowChanges(rides, rides', rid)
                /\ rid \in RideRows =>
                      rides'[rid] = [rides[rid] EXCEPT !.status = "accepted", !.driver_id = d]
                /\ OnlyRowChanges(drivers, drivers', d)
                /\ drivers'[d].status = "busy"]_vars

\* a ride_accept has just returned ok while the other handler is running: the
\* ride is accepted with the driver bound and the driver is busy
C11_Witness ==
    /\ resp.op = "ride_accept"
    /\ resp.res = "ok"
    /\ \E q \in Procs : pc[q] # "idle"
    /\ \E r \in RideRows :
          /\ rides[r].status = "accepted"
          /\ rides[r].driver_id \in DriverRows
          /\ drivers[rides[r].driver_id].status = "busy"

\* C12: ride_end on an accepted ride bound to the caller returns ok, sets that
\* ride to completed with its end_time set and the caller to available, and
\* changes no other ride and no other driver.
C12_EndRideCompletes ==
    [][\A p \in Procs :
          Returns(p, "end_commit") =>
             LET rid == arg[p].rid
                 d == arg[p].d IN
             (/\ rid \in RideRows
              /\ rides[rid].status = "accepted"
              /\ rides[rid].driver_id = d)
             => (/\ resp' = Resp(p, "ride_end", "ok")
                 /\ users' = users
                 /\ OnlyRowChanges(rides, rides', rid)
                 /\ rides'[rid].status = "completed"
                 /\ rides'[rid].end_time # NoTime
                 /\ rides'[rid].driver_id = d
                 /\ rides'[rid].user_id = rides[rid].user_id
                 /\ rides'[rid].start_time = rides[rid].start_time
                 /\ OnlyRowChanges(drivers, drivers', d)
                 /\ drivers'[d].status = "available"
                 /\ drivers'[d].contact = drivers[d].contact)]_vars

\* a ride_end has just returned ok: a ride is completed, its driver is
\* available, and another ride is still requested
C12_Witness ==
    /\ resp.op = "ride_end"
    /\ resp.res = "ok"
    /\ \E r \in RideRows :
          /\ rides[r].status = "completed"
          /\ rides[r].end_time # NoTime
          /\ rides[r].driver_id \in DriverRows
          /\ drivers[rides[r].driver_id].status = "available"
    /\ \E r \in RideRows : rides[r].status = "requested"

\* C13: admin_driver_status with a status outside pending, approved,
\* available, busy, inactive returns InvalidArgument and changes nothing; every
\* driver's status is always one of the five.
Recognized == {"pending", "approved", "available", "busy", "inactive"}
C13_InvalidStatusRejected ==
    [][/\ \A d \in 1..Len(drivers') : drivers'[d].status \in Recognized
       /\ \A d \in 1..Len(tx'.drivers) : tx'.drivers[d].status \in Recognized
       /\ \A p \in Procs :
             Starts(p) =>
                \A did \in DriverIds, s \in StatusInputs \ Recognized :
                   admin_driver_status(p, did, s, utcnow)
                      => (/\ resp' = Resp(p, "admin_driver_status", "InvalidArgument")
                          /\ pc'[p] = "idle"
                          /\ UNCHANGED <<tables, lock, tx>>)]_vars

\* an unrecognized status has just been refused while a driver is registered
C13_Witness ==
    /\ resp.op = "admin_driver_status"
    /\ resp.res = "InvalidArgument"
    /\ Len(drivers) > 0

\* C14: user_request adds one users row and one rides row in one step, the
\* ride requested, with no driver and bound to the new users row; the id it
\* returns is the id of the new ride.
C14_RequestCreatesRide ==
    [][\A p \in Procs :
          /\ (pc[p] = "req_insert_ride" /\ pc'[p] # pc[p]) => UNCHANGED tables
          /\ Returns(p, "req_commit") =>
                /\ resp'.proc = p /\ resp'.op = "user_request" /\ resp'.res = "ok"
                /\ drivers' = drivers
                /\ Len(users') = Len(users) + 1
                /\ Len(rides') = Len(rides) + 1
                /\ \A i \in 1..Len(users) : users'[i] = users[i]
                /\ \A i \in 1..Len(rides) : rides'[i] = rides[i]
                /\ rides'[Len(rides')].status = "requested"
                /\ rides'[Len(rides')].driver_id = NULL
                /\ rides'[Len(rides')].end_time = NoTime
                /\ rides'[Len(rides')].user_id = Len(users')
                /\ resp'.id = Len(rides')]_vars

\* a second user_request has just returned, after an earlier one
C14_Witness ==
    /\ resp.op = "user_request"
    /\ resp.res = "ok"
    /\ resp.id = Len(rides)
    /\ Len(rides) > 1

\* C15: rides_latest returns at most 50 rides, those with the highest ids, in
\* strictly descending id order, each with its current status; the ride a
\* user_request has just created comes first, with status requested.
C15_RecentRidesNewestFirst ==
    LET out == rides_latest IN
    /\ Len(out) <= 50
    /\ Len(out) = IF Len(rides) < 50 THEN Len(rides) ELSE 50
    /\ \A i \in 1..Len(out) :
          /\ out[i].ride_id = Len(rides) - i + 1
          /\ out[i].status = rides[out[i].ride_id].status
          /\ out[i].driver_id = rides[out[i].ride_id].driver_id
    /\ \A i, j \in 1..Len(out) : i < j => out[i].ride_id > out[j].ride_id
    /\ (resp.op = "user_request" /\ resp.res = "ok")
          => (out[1].ride_id = resp.id /\ out[1].status = "requested")

\* a user_request has just returned and there are more than 50 rides
C15_Witness ==
    /\ resp.op = "user_request"
    /\ resp.res = "ok"
    /\ Len(rides) > 50
    /\ Len(rides_latest) = 50

C17_ContactUnique ==
    \A d, e \in DriverRows : drivers[d].contact = drivers[e].contact => d = e

\* C18: admin_driver_status with a recognized status is never refused, whatever
\* rides the driver is bound to; it returns ok, changes only the named
\* driver's status and updated_at, and changes no ride.
C18_OperatorOverrideUnchecked ==
    [][\A p \in Procs :
          /\ Starts(p) =>
                \/ (/\ pc'[p] = "adm_commit"
                    /\ resp' = NoResp
                    /\ UNCHANGED tables)
                \/ \A did \in DriverIds, s \in Recognized :
                      ~admin_driver_status(p, did, s, utcnow)
          /\ Returns(p, "adm_commit") =>
                /\ resp' = Resp(p, "admin_driver_status", "ok")
                /\ users' = users
                /\ rides' = rides
                /\ OnlyRowChanges(drivers, drivers', arg[p].d)
                /\ arg[p].d \in DriverRows =>
                      /\ drivers'[arg[p].d].status = arg[p].s
                      /\ drivers'[arg[p].d].contact = drivers[arg[p].d].contact]_vars

\* the operator has just set a driver available that is bound to an accepted ride
C18_Witness ==
    /\ resp.op = "admin_driver_status"
    /\ resp.res = "ok"
    /\ \E d \in DriverRows : drivers[d].status = "available" /\ AcceptedBy(d) # {}

\* C19: once a ride has a driver bound, no step changes the ride's driver_id.
C19_BoundDriverNeverChanges ==
    [][\A r \in RideRows :
          rides[r].driver_id # NULL => rides'[r].driver_id = rides[r].driver_id]_vars

\* C20: ride_accept or ride_end by a registered driver with a ride id that no
\* ride has changes no ride, returns ok and sets the caller busy (ride_accept)
\* or available (ride_end).
C20_MissingRideStillOk ==
    [][\A p \in Procs :
          /\ (Returns(p, "acc_commit") /\ arg[p].rid \notin RideRows) =>
                /\ resp' = Resp(p, "ride_accept", "ok")
                /\ rides' = rides
                /\ drivers'[arg[p].d].status = "busy"
          /\ (Returns(p, "end_commit") /\ arg[p].rid \notin RideRows) =>
                /\ resp' = Resp(p, "ride_end", "ok")
                /\ rides' = rides
                /\ drivers'[arg[p].d].status = "available"]_vars

\* a ride_accept has just returned ok and made its caller busy though there is no ride
C20_Witness ==
    /\ resp.op = "ride_accept"
    /\ resp.res = "ok"
    /\ rides = <<>>
    /\ \E d \in DriverRows : drivers[d].status = "busy"

\* the rides that reference users row u
RidesOf(t, u) == {i \in 1..Len(t) : t[i].user_id = u}

\* every ride references one users row that exists, every users row is
\* referenced by exactly one ride, and a later ride references a later users row
OneToOne(us, rs) ==
    /\ \A i \in 1..Len(rs) : rs[i].user_id \in 1..Len(us)
    /\ \A u \in 1..Len(us) : Cardinality(RidesOf(rs, u)) = 1
    /\ \A i, j \in 1..Len(rs) : i < j => rs[i].user_id < rs[j].user_id

\* C21: after every step the committed rides and users rows are in one-to-one
\* correspondence; a step never deletes or changes a users row, never deletes
\* a ride or changes the users row it references, and gives a new row an id
\* above every id there is; the id user_request returns is above every id
\* there was.
C21_RidesMatchRequests ==
    [][/\ OneToOne(users', rides')
       /\ Len(users') >= Len(users)
       /\ \A u \in 1..Len(users) : users'[u] = users[u]
       /\ Len(rides') >= Len(rides)
       /\ \A r \in 1..Len(rides) : rides'[r].user_id = rides[r].user_id
       /\ \A p \in Procs :
             Returns(p, "req_commit") =>
                /\ resp'.id > Len(users)
                /\ resp'.id > Len(rides)
                /\ resp'.id = Len(users')]_vars

\* a second user_request has just returned after the first ride was accepted
C21_Witness ==
    /\ resp.op = "user_request"
    /\ resp.res = "ok"
    /\ Len(users) = 2
    /\ Len(rides) = 2
    /\ rides[1].status = "accepted"
    /\ rides[1].user_id = 1
    /\ rides[2].user_id = 2

====
